---- MODULE Spec2Model ----
(***************************************************************************)
(* Model of banks_unifier.py: the three bank readers (transform), the     *)
(* csv reader/writer they sit on, pipe() and main().                      *)
(*                                                                         *)
(* Text is a tuple of one-character strings, so that parsing is done on   *)
(* the characters.  Column names (dictionary keys) are plain strings.     *)
(* A float is an IEEE-754 double kept as its exponent and its 53          *)
(* significand bits, so that rounding is the machine's rounding.          *)
(***************************************************************************)
EXTENDS Integers, Sequences, FiniteSets, TLC

(* ---------------------------------------------------------------- bounds *)
MaxFiles == 2
MaxRows == 2
MaxEuro == 2

(* ------------------------------------------------------------ characters *)
\* Python's None (csv.DictReader's restval); no text equals it.
None == <<"None">>

Digits == <<"0", "1", "2", "3", "4", "5", "6", "7", "8", "9">>

IsDigit(c) == \E i \in 1..10 : Digits[i] = c

DigitVal(c) == (CHOOSE i \in 1..10 : Digits[i] = c) - 1

AllDigits(s) == Len(s) > 0 /\ \A i \in 1..Len(s) : IsDigit(s[i])

RECURSIVE DigitsVal(_)
DigitsVal(s) ==
    IF s = <<>> THEN 0
    ELSE 10 * DigitsVal(SubSeq(s, 1, Len(s) - 1)) + DigitVal(s[Len(s)])

RECURSIVE Pow10(_)
Pow10(k) == IF k = 0 THEN 1 ELSE 10 * Pow10(k - 1)

\* the pieces of s between occurrences of the character sep
RECURSIVE Split(_, _)
Split(s, sep) ==
    IF \A i \in 1..Len(s) : s[i] # sep THEN <<s>>
    ELSE LET p == CHOOSE i \in 1..Len(s) :
                      s[i] = sep /\ \A j \in 1..(i - 1) : s[j] # sep
         IN <<SubSeq(s, 1, p - 1)>> \o Split(SubSeq(s, p + 1, Len(s)), sep)

\* the text of the names the program uses as column names
Chars ==
    [n \in {"timestamp", "type", "amount", "from", "to", "date", "transaction",
            "amounts", "date_readable", "euro", "cents"} |->
        CASE n = "timestamp" -> <<"t","i","m","e","s","t","a","m","p">>
          [] n = "type" -> <<"t","y","p","e">>
          [] n = "amount" -> <<"a","m","o","u","n","t">>
          [] n = "from" -> <<"f","r","o","m">>
          [] n = "to" -> <<"t","o">>
          [] n = "date" -> <<"d","a","t","e">>
          [] n = "transaction" -> <<"t","r","a","n","s","a","c","t","i","o","n">>
          [] n = "amounts" -> <<"a","m","o","u","n","t","s">>
          [] n = "date_readable" -> <<"d","a","t","e","_","r","e","a","d","a","b","l","e">>
          [] n = "euro" -> <<"e","u","r","o">>
          [] n = "cents" -> <<"c","e","n","t","s">>]

(* ------------------------------------------------- results and exceptions *)
\* A call either returns a value (exc = "") or raises exc; why says what
\* raised it.
Ok(v) == [exc |-> "", val |-> v, why |-> <<>>]

Raise(kind, detail) == [exc |-> kind, val |-> <<>>, why |-> detail]

(* ------------------------------------------------------------------ int() *)
\* int(x) on a csv cell: TypeError on None, ValueError unless an optional
\* sign followed by decimal digits.  (Python also strips blanks and reads
\* underscores between digits; no input enumerated here has them.)
PyInt(x) ==
    IF x = None THEN Raise("TypeError", <<"int">>)
    ELSE IF Len(x) > 0 /\ x[1] \in {"-", "+"}
         THEN IF AllDigits(Tail(x))
              THEN Ok(IF x[1] = "-" THEN 0 - DigitsVal(Tail(x)) ELSE DigitsVal(Tail(x)))
              ELSE Raise("ValueError", <<"int">>)
         ELSE IF AllDigits(x) THEN Ok(DigitsVal(x))
              ELSE Raise("ValueError", <<"int">>)

(* ----------------------------------------------------------------- floats *)
\* A non-negative double: value = (m read as a 53-bit number) * 2^(e - 52);
\* m[1] = 1 unless the value is zero.
MantBits == 53

ZeroBits == [i \in 1..MantBits |-> 0]

FloatZero == [e |-> 0, m |-> ZeroBits]

\* the binary digits of a natural number, most significant first (<<>> for 0)
RECURSIVE NatBits(_)
NatBits(n) == IF n = 0 THEN <<>> ELSE NatBits(n \div 2) \o <<n % 2>>

\* 2^0 .. 2^16
Pow2 == <<1, 2, 4, 8, 16, 32, 64, 128, 256, 512, 1024, 2048, 4096, 8192,
          16384, 32768, 65536>>

\* the w binary digits of c < 2^w (w <= 16), most significant first
ChunkBits(c, w) == <<>> \o [i \in 1..w |-> (c \div Pow2[w - i + 1]) % 2]

\* Long division of r by d (0 <= r < d < 2^15), sixteen binary digits at a
\* time: the first 16 * chunks digits of r/d after the point, and the
\* remainder left behind them
RECURSIVE FracBits(_, _, _)
FracBits(r, d, chunks) ==
    IF chunks = 0 THEN [bits |-> <<>>, rem |-> r]
    ELSE LET rest == FracBits((r * 65536) % d, d, chunks - 1)
         IN [bits |-> ChunkBits((r * 65536) \div d, 16) \o rest.bits,
             rem |-> rest.rem]

\* bits + 1 on a bit tuple that is not all ones
IncBits(b) ==
    LET z == CHOOSE i \in 1..Len(b) : b[i] = 0 /\ \A j \in (i + 1)..Len(b) : b[j] = 1
    IN <<>> \o [i \in 1..Len(b) |-> IF i < z THEN b[i] ELSE IF i = z THEN 1 ELSE 0]

\* Round to nearest, ties to even: bits is an exact positive binary number
\* whose first digit is 1 and has weight 2^e; sticky says a non-zero rest
\* follows the digits given.
RoundBits(e, bits, sticky) ==
    IF Len(bits) <= MantBits
    THEN [e |-> e, m |-> bits \o [i \in 1..(MantBits - Len(bits)) |-> 0]]
    ELSE LET keep == SubSeq(bits, 1, MantBits)
             guard == bits[MantBits + 1]
             rest == sticky \/ \E i \in (MantBits + 2)..Len(bits) : bits[i] = 1
             up == guard = 1 /\ (rest \/ keep[MantBits] = 1)
         IN IF ~up THEN [e |-> e, m |-> keep]
            ELSE IF \A i \in 1..MantBits : keep[i] = 1
                 THEN [e |-> e + 1, m |-> <<1>> \o [i \in 1..(MantBits - 1) |-> 0]]
                 ELSE [e |-> e, m |-> IncBits(keep)]

\* the number of zeros before the first one of a bit tuple that has a one
LeadZeros(b) == (CHOOSE i \in 1..Len(b) : b[i] = 1 /\ \A j \in 1..(i - 1) : b[j] = 0) - 1

\* the double nearest to n/d (n >= 0, d > 0): what float("n.dd") and the
\* true division n / d of two ints both return
FloatOfRatio(n, d) ==
    IF n = 0 THEN FloatZero
    ELSE LET ip == NatBits(n \div d)
             \* 80 digits: 53 kept, one guard digit and the leading zeros of
             \* a value below one (at least 1/d, d < 2^15)
             fr == FracBits(n % d, d, 5)
             all == ip \o fr.bits
             z == LeadZeros(all)
         IN RoundBits(Len(ip) - 1 - z, SubSeq(all, z + 1, Len(all)), fr.rem # 0)

\* bit of weight 2^p in the double x
BitAt(x, p) == IF p > x.e \/ p < x.e - (MantBits - 1) THEN 0 ELSE x.m[x.e - p + 1]

\* x + y on non-negative doubles: the exact sum, rounded once
FloatAdd(x, y) ==
    IF x = FloatZero THEN y
    ELSE IF y = FloatZero THEN x
    ELSE LET hi == (IF x.e > y.e THEN x.e ELSE y.e) + 1
             lo == (IF x.e < y.e THEN x.e ELSE y.e) - (MantBits - 1)
             n == hi - lo + 1
             \* digit i has weight 2^(hi - i + 1); the digits of x and y added
             \* without carrying
             two == <<>> \o [i \in 1..n |-> BitAt(x, hi - i + 1) + BitAt(y, hi - i + 1)]
             \* a carry comes into digit i when some lower digit makes one
             \* and every digit in between passes it on
             carry(i) ==
                 /\ \E j \in (i + 1)..n : two[j] # 1
                 /\ two[CHOOSE j \in (i + 1)..n :
                            two[j] # 1 /\ \A r \in (i + 1)..(j - 1) : two[r] = 1] = 2
             sum == <<>> \o [i \in 1..n |-> (two[i] + (IF carry(i) THEN 1 ELSE 0)) % 2]
             z == LeadZeros(sum)
         IN RoundBits(hi - z, SubSeq(sum, z + 1, Len(sum)), FALSE)

\* float(x) on a csv cell: TypeError on None, ValueError unless unsigned
\* decimal digits with at most one point.  (Python also reads signs,
\* exponents, inf and nan; no input enumerated here has them.)
PyFloat(x) ==
    IF x = None THEN Raise("TypeError", <<"float">>)
    ELSE LET parts == Split(x, ".")
         IN IF Len(parts) = 1 /\ AllDigits(parts[1])
            THEN Ok(FloatOfRatio(DigitsVal(parts[1]), 1))
            ELSE IF /\ Len(parts) = 2
                    /\ Len(parts[1]) + Len(parts[2]) > 0
                    /\ \A i \in 1..2 : parts[i] = <<>> \/ AllDigits(parts[i])
                 THEN Ok(FloatOfRatio(DigitsVal(parts[1] \o parts[2]),
                                      Pow10(Len(parts[2]))))
                 ELSE Raise("ValueError", <<"float">>)

\* int -> float conversion of a non-negative int (exact in this range)
IntToFloat(n) == FloatOfRatio(n, 1)

(* ------------------------------------------------------------------ dates *)
MonthAbbr ==
    << <<"J","a","n">>, <<"F","e","b">>, <<"M","a","r">>, <<"A","p","r">>,
       <<"M","a","y">>, <<"J","u","n">>, <<"J","u","l">>, <<"A","u","g">>,
       <<"S","e","p">>, <<"O","c","t">>, <<"N","o","v">>, <<"D","e","c">> >>

IsLeap(y) == y % 4 = 0 /\ (y % 100 # 0 \/ y % 400 = 0)

DaysInMonth(y, m) ==
    IF m = 2 THEN (IF IsLeap(y) THEN 29 ELSE 28)
    ELSE IF m \in {4, 6, 9, 11} THEN 30 ELSE 31

\* the three format strings: the separator and the directives in order
FmtA == [sep |-> " ", dirs |-> <<"b", "d", "Y">>]

FmtB == [sep |-> "-", dirs |-> <<"d", "m", "Y">>]

FmtC == [sep |-> " ", dirs |-> <<"d", "b", "Y">>]

\* one directive on one piece of text: the number it stands for, or -1
Directive(dir, t) ==
    IF dir = "b"
    THEN IF \E i \in 1..12 : MonthAbbr[i] = t
         THEN CHOOSE i \in 1..12 : MonthAbbr[i] = t ELSE -1
    ELSE IF dir = "Y"
    THEN IF Len(t) = 4 /\ AllDigits(t) THEN DigitsVal(t) ELSE -1
    ELSE \* "d" and "m": one or two digits, in range, never zero
         IF Len(t) \in {1, 2} /\ AllDigits(t)
            /\ DigitsVal(t) \in 1..(IF dir = "d" THEN 31 ELSE 12)
         THEN DigitsVal(t) ELSE -1

\* datetime.strptime(x, fmt).date(): the text is cut at the separators and
\* each piece read by its directive.  (Python also takes month names in any
\* case and runs of blanks; no input enumerated here has them.)
StrpTime(x, fmt) ==
    IF x = None THEN Raise("TypeError", <<"strptime">>)
    ELSE LET parts == Split(x, fmt.sep)
         IN IF Len(parts) # 3 THEN Raise("ValueError", <<"strptime">>)
            ELSE LET n == [i \in 1..3 |-> Directive(fmt.dirs[i], parts[i])]
                     at(dir) == n[CHOOSE i \in 1..3 : fmt.dirs[i] = dir]
                     y == at("Y")
                     m == IF \E i \in 1..3 : fmt.dirs[i] = "b" THEN at("b") ELSE at("m")
                     d == at("d")
                 IN IF (\E i \in 1..3 : n[i] = -1) \/ y < 1 \/ d > DaysInMonth(y, m)
                    THEN Raise("ValueError", <<"strptime">>)
                    ELSE Ok([year |-> y, month |-> m, day |-> d])

(* ------------------------------------------------------------------ enums *)
BANK_A == "BankA"

BANK_B == "BankB"

BANK_C == "BankC"

Bank == {BANK_A, BANK_B, BANK_C}

REMOVE == <<"r","e","m","o","v","e">>

ADD == <<"a","d","d">>

\* OperationType(x): lookup by value; anything else, None included, is a
\* ValueError
OperationType(x) ==
    IF x \in {REMOVE, ADD} THEN Ok(x) ELSE Raise("ValueError", <<"OperationType">>)

(* ------------------------------------------------------------- BankRecord *)
BankRecord(timestamp, type, amount, from_, to) ==
    [timestamp |-> timestamp, type |-> type, amount |-> amount,
     from_ |-> from_, to |-> to]

\* dataclasses.fields(BankRecord), by name
RecordFields == <<"timestamp", "type", "amount", "from_", "to">>

get_fields ==
    [i \in 1..Len(RecordFields) |->
        IF RecordFields[i] = "from_" THEN "from" ELSE RecordFields[i]]

\* as_dict gone wrong: the rename of from_ forgotten
as_dict_norename(rec) ==
    [k \in {RecordFields[i] : i \in 1..Len(RecordFields)} |-> rec[k]]

\* asdict(self), then result["from"] = result.pop("from_")
as_dict(rec) ==
    LET result == [k \in {RecordFields[i] : i \in 1..Len(RecordFields)} |-> rec[k]]
    IN [k \in (DOMAIN result \ {"from_"}) \cup {"from"} |->
           IF k = "from" THEN result["from_"] ELSE result[k]]

(* --------------------------------------------------------------- readers *)
\* record[key], key being one of the program's column names
GetItem(record, key) ==
    IF Chars[key] \in DOMAIN record THEN Ok(record[Chars[key]])
    ELSE Raise("KeyError", <<key>>)

\* f(r) when r returned, else r's exception
Bind(r, F(_)) == IF r.exc # "" THEN r ELSE F(r.val)

\* The keyword arguments of BankRecord(...) are evaluated in order; the first
\* one that raises ends the call.  KeyError and ValueError are caught and
\* re-raised as ValidationError, anything else leaves transform as it is.
Construct(source, args) ==
    IF \A i \in 1..5 : args[i].exc = ""
    THEN Ok(BankRecord(args[1].val, args[2].val, args[3].val, args[4].val, args[5].val))
    ELSE LET first == CHOOSE i \in 1..5 :
                          args[i].exc # "" /\ \A j \in 1..(i - 1) : args[j].exc = ""
             error == args[first]
         IN IF error.exc \in {"KeyError", "ValueError"}
            THEN Raise("ValidationError",
                       <<"invalid data for", source, error.exc>> \o error.why)
            ELSE error

BankAReader_transform(record) ==
    Construct("bank a",
        << Bind(GetItem(record, "timestamp"), LAMBDA v : StrpTime(v, FmtA)),
           Bind(GetItem(record, "type"), OperationType),
           Bind(GetItem(record, "amount"), PyFloat),
           Bind(GetItem(record, "from"), PyInt),
           Bind(GetItem(record, "to"), PyInt) >>)

BankBReader_transform(record) ==
    Construct("bank b",
        << Bind(GetItem(record, "date"), LAMBDA v : StrpTime(v, FmtB)),
           Bind(GetItem(record, "transaction"), OperationType),
           Bind(GetItem(record, "amounts"), PyFloat),
           Bind(GetItem(record, "from"), PyInt),
           Bind(GetItem(record, "to"), PyInt) >>)

\* int(record["euro"]) + int(record["cents"]) / 100: euro is looked up and
\* converted first, then cents, then the division and the addition
EuroCents(record) ==
    LET euro == Bind(GetItem(record, "euro"), PyInt)
        cents == Bind(GetItem(record, "cents"), PyInt)
    IN IF euro.exc # "" THEN euro
       ELSE IF cents.exc # "" THEN cents
       ELSE Ok(FloatAdd(IntToFloat(euro.val), FloatOfRatio(cents.val, 100)))

BankCReader_transform(record) ==
    Construct("bank c",
        << Bind(GetItem(record, "date_readable"), LAMBDA v : StrpTime(v, FmtC)),
           Bind(GetItem(record, "type"), OperationType),
           EuroCents(record),
           Bind(GetItem(record, "from"), PyInt),
           Bind(GetItem(record, "to"), PyInt) >>)

\* get_reader_for_bank(bank)(file).transform
transform(bank, record) ==
    IF bank = BANK_A THEN BankAReader_transform(record)
    ELSE IF bank = BANK_B THEN BankBReader_transform(record)
    ELSE BankCReader_transform(record)

(* ------------------------------------------------------------ csv reading *)
\* An input file is its lines, each line the tuple of its cells; a blank
\* line is <<>>.  The first line holds the column names.
RestKey == None

\* the dictionary csv.DictReader makes of one data line: a column beyond the
\* line's last cell gets restval (None), cells beyond the last column are
\* collected under restkey (None)
DictRow(fieldnames, row) ==
    LET names == {fieldnames[i] : i \in 1..Len(fieldnames)}
        last(k) == CHOOSE i \in 1..Len(fieldnames) :
                       fieldnames[i] = k /\ \A j \in (i + 1)..Len(fieldnames) : fieldnames[j] # k
        keys == IF Len(row) > Len(fieldnames) THEN names \cup {RestKey} ELSE names
    IN [k \in keys |->
           IF k \in names
           THEN (IF last(k) <= Len(row) THEN row[last(k)] ELSE None)
           ELSE SubSeq(row, Len(fieldnames) + 1, Len(row))]

\* NextDataLine gone wrong: one line too far after each row
NextDataLine_skip(lines, pos) ==
    LET from == pos + 2
        cand == {p \in from..Len(lines) : lines[p] # <<>>}
    IN IF cand = {} THEN 0
       ELSE CHOOSE p \in cand : \A q \in cand : p <= q

\* NextDataLine gone wrong: the header line taken for data
NextDataLine_header(lines, pos) ==
    LET from == pos + 1
        cand == {p \in from..Len(lines) : lines[p] # <<>>}
    IN IF cand = {} THEN 0
       ELSE CHOOSE p \in cand : \A q \in cand : p <= q

\* the position of the next non-blank line after pos, or 0 at end of file
\* (the header is line 1 and is consumed before the first data line)
NextDataLine(lines, pos) ==
    LET from == IF pos = 0 THEN 2 ELSE pos + 1
        cand == {p \in from..Len(lines) : lines[p] # <<>>}
    IN IF cand = {} THEN 0
       ELSE CHOOSE p \in cand : \A q \in cand : p <= q

(* ------------------------------------------------------------ csv writing *)
RECURSIVE NatStr(_)
NatStr(n) == IF n < 10 THEN <<Digits[n + 1]>> ELSE NatStr(n \div 10) \o <<Digits[(n % 10) + 1]>>

IntStr(n) == IF n < 0 THEN <<"-">> \o NatStr(0 - n) ELSE NatStr(n)

\* n in decimal, zero-padded on the left to w digits
Pad(n, w) == [i \in 1..(w - Len(NatStr(n))) |-> "0"] \o NatStr(n)

\* str(date): ISO format
DateStr(d) == Pad(d.year, 4) \o <<"-">> \o Pad(d.month, 2) \o <<"-">> \o Pad(d.day, 2)

\* An injective rendering of a double (sign-less binary significand and
\* exponent).  The decimal digits Python's repr would choose are not worked
\* out.
FloatStr(x) ==
    IF x = FloatZero THEN <<"0", ".", "0">>
    ELSE <<"0", "b", "1", ".">> \o [i \in 1..(MantBits - 1) |-> Digits[x.m[i + 1] + 1]]
             \o <<"p">> \o IntStr(x.e)

\* str(value) for the value stored under field k of a record
Cell(k, v) ==
    IF k = "timestamp" THEN DateStr(v)
    ELSE IF k = "amount" THEN FloatStr(v)
    ELSE IF k \in {"from", "to"} THEN IntStr(v)
    ELSE v

\* CsvWriter.__init__: DictWriter(fieldnames=get_fields()).writeheader()
HeaderLine == <<>> \o [i \in 1..Len(get_fields) |-> Chars[get_fields[i]]]

\* CsvWriter.write: writerow(record.as_dict()): the cells in fieldnames
\* order, an empty cell (restval) for a name the dictionary lacks
RowLine(rec) ==
    LET d == as_dict(rec)
    IN <<>> \o [i \in 1..Len(get_fields) |->
                   IF get_fields[i] \in DOMAIN d
                   THEN Cell(get_fields[i], d[get_fields[i]]) ELSE <<>>]

\* CsvWriter.__init__ on a freshly opened (empty) output
WriterInit(out) == Append(out, HeaderLine)

\* write gone wrong: the header written again with every record
WriterWrite_header(out, rec) == Append(Append(out, HeaderLine), RowLine(rec))

\* write gone wrong: the record written over the last line
WriterWrite_overwrite(out, rec) ==
    IF Len(out) > 1 THEN [out EXCEPT ![Len(out)] = RowLine(rec)]
    ELSE Append(out, RowLine(rec))

\* CsvWriter.write
WriterWrite(out, rec) == Append(out, RowLine(rec))

(* ------------------------------------------------------------- input data *)
\* One transaction written the way each bank writes it (as the test data
\* does): the header line and the data line of its file.
HeaderOf(bank) ==
    IF bank = BANK_A
    THEN <<Chars["timestamp"], Chars["type"], Chars["amount"], Chars["from"], Chars["to"]>>
    ELSE IF bank = BANK_B
    THEN <<Chars["date"], Chars["transaction"], Chars["amounts"], Chars["from"], Chars["to"]>>
    ELSE <<Chars["date_readable"], Chars["type"], Chars["euro"], Chars["cents"],
           Chars["from"], Chars["to"]>>

LineOf(bank, t) ==
    IF bank = BANK_A
    THEN << MonthAbbr[t.date.month] \o <<" ">> \o NatStr(t.date.day)
                \o <<" ">> \o Pad(t.date.year, 4),
            t.op, NatStr(t.euro) \o <<".">> \o Pad(t.cents, 2),
            IntStr(t.from), IntStr(t.to) >>
    ELSE IF bank = BANK_B
    THEN << Pad(t.date.day, 2) \o <<"-">> \o Pad(t.date.month, 2)
                \o <<"-">> \o Pad(t.date.year, 4),
            t.op, NatStr(t.euro) \o <<".">> \o Pad(t.cents, 2),
            IntStr(t.from), IntStr(t.to) >>
    ELSE << NatStr(t.date.day) \o <<" ">> \o MonthAbbr[t.date.month]
                \o <<" ">> \o Pad(t.date.year, 4),
            t.op, NatStr(t.euro), NatStr(t.cents),
            IntStr(t.from), IntStr(t.to) >>

\* the transaction on line lineNo of input file fileNo
TxnAt(fileNo, lineNo) ==
    [date |-> [year |-> 2019, month |-> 10, day |-> lineNo],
     op |-> IF lineNo % 2 = 0 THEN REMOVE ELSE ADD,
     euro |-> 99 + fileNo, cents |-> (20 * (lineNo - 1)) % 100,
     from |-> 198, to |-> 182]

Transfer == <<"t","r","a","n","s","f","e","r">>

\* A file is described by its bank, its header ("full", "lacking" the last
\* column, or "none" for an empty file) and the kinds of its lines after the
\* header: "good", "bad" (an operation that is neither remove nor add),
\* "cut" (the last cell is missing) or "blank".
GoodRun(n) == [i \in 1..n |-> "good"]

OkKinds == {GoodRun(n) : n \in 0..MaxRows} \cup {<<"blank">>, <<"blank", "good", "blank">>}

\* good lines, one failing line, then at most one more good line
FailKinds ==
    {GoodRun(k - 1) \o <<f>> \o GoodRun(t) :
        f \in {"bad", "cut"}, k \in 1..MaxRows, t \in 0..1}

OkFiles ==
    [hdr : {"full"}, kinds : OkKinds] \cup [hdr : {"lacking", "none"}, kinds : {<<>>}]

FailFiles ==
    [hdr : {"full"}, kinds : FailKinds] \cup [hdr : {"lacking"}, kinds : {<<"good">>}]

\* what follows a failing file is never read: one fixed file stands there
RestFile == [hdr |-> "full", kinds |-> <<"good">>]

FileSeqs ==
    UNION {[1..n -> OkFiles] : n \in 1..MaxFiles}
        \cup UNION {UNION {{ok \o <<f>> \o [i \in 1..t |-> RestFile] :
                               ok \in [1..k -> OkFiles], f \in FailFiles} :
                           t \in 0..(MaxFiles - 1 - k)} :
                    k \in 0..(MaxFiles - 1)}

DropLast(s) == SubSeq(s, 1, Len(s) - 1)

\* the files of one run go through the banks in turn, from any first bank
BankAt(first, fileNo) == <<BANK_A, BANK_B, BANK_C>>[((first + fileNo) % 3) + 1]

MakeLine(bank, d, fileNo, lineNo) ==
    LET kind == d.kinds[lineNo - 1]
        good == LineOf(bank, TxnAt(fileNo, lineNo))
    IN IF kind = "blank" THEN <<>>
       ELSE IF kind = "bad" THEN [good EXCEPT ![2] = Transfer]
       ELSE IF kind = "cut" \/ d.hdr = "lacking" THEN DropLast(good)
       ELSE good

MakeFile(bank, d, fileNo) ==
    [bank |-> bank,
     lines |-> IF d.hdr = "none" THEN <<>>
               ELSE <<IF d.hdr = "full" THEN HeaderOf(bank) ELSE DropLast(HeaderOf(bank))>>
                        \o [i \in 1..Len(d.kinds) |-> MakeLine(bank, d, fileNo, i + 1)]]

InputFiles ==
    {[i \in 1..Len(ds) |-> MakeFile(BankAt(first, i), ds[i], i)] :
        ds \in FileSeqs, first \in 1..3}

(* ------------------------------------------------------------------ state *)
VARIABLES
    files,      \* main: file_pairs, each path with the lines of its file
    pc,         \* main: "start", "loop", "iter", "write", "done"
                \* ("transform" when the transformers are run alone)
    fileIdx,    \* main: position of the for loop over file_pairs
    linePos,    \* the reader's position in the open file (0: nothing read)
    output,     \* the lines of the output file
    inflight,   \* records yielded by the reader and not yet written
    stderr,     \* messages main printed to sys.stderr
    result,     \* "" while running, then "None", "1" or the exception raised
    trace       \* history: <<event, file, data row>>

vars == <<files, pc, fileIdx, linePos, output, inflight, stderr, result, trace>>

\* the number of data rows among the lines up to pos
RowNo(lines, pos) == Cardinality({p \in 2..pos : lines[p] # <<>>})

CurFile == files[fileIdx]

\* the outcome of what AbstractReader.__iter__ does on resuming: read the
\* line at p, make its dictionary, transform it
ReadAt(file, p) == transform(file.bank, DictRow(file.lines[1], file.lines[p]))

\* pipe gone wrong: the reader is drained before anything is written
PipeAfterYield_buffer == "iter"

\* where control goes when the reader yields a record: to the body of
\* pipe's for loop
PipeAfterYield == "write"

\* main gone wrong: the message is printed and the loop goes on
ExceptValidationError_continue == [pc |-> "iter", result |-> ""]

\* main's except clause: print(str(error), file=sys.stderr); return 1
ExceptValidationError == [pc |-> "done", result |-> "1"]

Init ==
    /\ files \in InputFiles
    /\ pc = "start"
    /\ fileIdx = 1
    /\ linePos = 0
    /\ output = <<>>
    /\ inflight = <<>>
    /\ stderr = <<>>
    /\ result = ""
    /\ trace = <<>>

\* with open(filename, "w") as output: writer = CsvWriter(output)
OpenOutput ==
    /\ pc = "start"
    /\ output' = WriterInit(<<>>)
    /\ pc' = "loop"
    /\ UNCHANGED <<files, fileIdx, linePos, inflight, stderr, result, trace>>

\* for path, bank_type in file_pairs: with path.open() as file: pipe(...)
OpenFile ==
    /\ pc = "loop"
    /\ fileIdx <= Len(files)
    /\ pc' = "iter"
    /\ linePos' = 0
    /\ trace' = Append(trace, <<"open", fileIdx, 0>>)
    /\ UNCHANGED <<files, fileIdx, output, inflight, stderr, result>>

\* the reader has a next row and transform returns a record: yield it
Yield ==
    /\ pc = "iter"
    /\ LET p == NextDataLine(CurFile.lines, linePos)
           r == ReadAt(CurFile, p)
       IN /\ p # 0
          /\ r.exc = ""
          /\ inflight' = Append(inflight, r.val)
          /\ linePos' = p
          /\ trace' = Append(trace, <<"yield", fileIdx, RowNo(CurFile.lines, p)>>)
    /\ pc' = PipeAfterYield
    /\ UNCHANGED <<files, fileIdx, output, stderr, result>>

\* pipe: writer.write(row)
WriteRow ==
    /\ pc = "write"
    /\ output' = WriterWrite(output, Head(inflight))
    /\ inflight' = Tail(inflight)
    /\ pc' = "iter"
    /\ trace' = Append(trace, <<"write", fileIdx, RowNo(CurFile.lines, linePos)>>)
    /\ UNCHANGED <<files, fileIdx, linePos, stderr, result>>

\* transform raises ValidationError: it leaves the reader and pipe, the input
\* file is closed, main prints the message and returns 1, the output is closed
RaiseValidationError ==
    /\ pc = "iter"
    /\ LET p == NextDataLine(CurFile.lines, linePos)
           r == ReadAt(CurFile, p)
       IN /\ p # 0
          /\ r.exc = "ValidationError"
          /\ stderr' = Append(stderr, r.why)
          /\ linePos' = p
          /\ trace' = Append(trace, <<"ValidationError", fileIdx, RowNo(CurFile.lines, p)>>)
    /\ pc' = ExceptValidationError.pc
    /\ result' = ExceptValidationError.result
    /\ UNCHANGED <<files, fileIdx, output, inflight>>

\* transform raises something main does not catch: both files are closed and
\* the exception leaves main
RaiseOther ==
    /\ pc = "iter"
    /\ LET p == NextDataLine(CurFile.lines, linePos)
           r == ReadAt(CurFile, p)
       IN /\ p # 0
          /\ r.exc \notin {"", "ValidationError"}
          /\ result' = r.exc
          /\ linePos' = p
          /\ trace' = Append(trace, <<r.exc, fileIdx, RowNo(CurFile.lines, p)>>)
    /\ pc' = "done"
    /\ UNCHANGED <<files, fileIdx, output, inflight, stderr>>

\* the reader is exhausted: pipe returns, the input file is closed
EndOfFile ==
    /\ pc = "iter"
    /\ NextDataLine(CurFile.lines, linePos) = 0
    /\ pc' = "loop"
    /\ fileIdx' = fileIdx + 1
    /\ trace' = Append(trace, <<"close", fileIdx, 0>>)
    /\ UNCHANGED <<files, linePos, output, inflight, stderr, result>>

\* the for loop is over: the output is closed, main returns None
Return ==
    /\ pc = "loop"
    /\ fileIdx > Len(files)
    /\ pc' = "done"
    /\ result' = "None"
    /\ UNCHANGED <<files, fileIdx, linePos, output, inflight, stderr, trace>>

Next ==
    \/ OpenOutput
    \/ OpenFile
    \/ Yield
    \/ WriteRow
    \/ RaiseValidationError
    \/ RaiseOther
    \/ EndOfFile
    \/ Return

Spec == Init /\ [][Next]_vars

(* ------------------------------------------------ the transformers alone *)
\* One transaction handed to the three transformers in turn, each in its own
\* format (as GetRecordTest.test_get_record does); inflight collects the
\* records they return.
Transactions ==
    [date : {[year |-> 2019, month |-> 10, day |-> 1],
             [year |-> 2020, month |-> 2, day |-> 29]},
     op : {REMOVE, ADD}, euro : 0..MaxEuro, cents : 0..99,
     from : {1}, to : {2}]

EquivInit ==
    /\ files \in {[i \in 1..3 |->
                     LET bank == <<BANK_A, BANK_B, BANK_C>>[i]
                     IN [bank |-> bank, lines |-> <<HeaderOf(bank), LineOf(bank, t)>>]] :
                  t \in Transactions}
    /\ pc = "transform"
    /\ fileIdx = 1
    /\ linePos = 0
    /\ output = <<>>
    /\ inflight = <<>>
    /\ stderr = <<>>
    /\ result = ""
    /\ trace = <<>>

\* func(data) for the next bank
ApplyTransform ==
    /\ pc = "transform"
    /\ fileIdx <= Len(files)
    /\ ReadAt(CurFile, 2).exc = ""
    /\ inflight' = Append(inflight, ReadAt(CurFile, 2).val)
    /\ fileIdx' = fileIdx + 1
    /\ UNCHANGED <<files, pc, linePos, output, stderr, result, trace>>

EquivNext == ApplyTransform

SpecEquiv == EquivInit /\ [][EquivNext]_vars

(* ----------------------------------------------------------------- claims *)
\* What the inputs say, worked out from the files alone.
NonBlank(line) == line # <<>>

\* the data rows of a file, in file order
DataRows(file) ==
    IF file.lines = <<>> THEN <<>> ELSE SelectSeq(Tail(file.lines), NonBlank)

\* what transform makes of data row k of a file
Outcome(file, k) == transform(file.bank, DictRow(file.lines[1], DataRows(file)[k]))

\* the first data row transform does not accept, 0 if it accepts them all
FirstBad(file) ==
    LET bad == {k \in 1..Len(DataRows(file)) : Outcome(file, k).exc # ""}
    IN IF bad = {} THEN 0 ELSE CHOOSE k \in bad : \A m \in bad : k <= m

\* the first file that has such a row, 0 if none has
FirstBadFile ==
    LET bad == {j \in 1..Len(files) : FirstBad(files[j]) # 0}
    IN IF bad = {} THEN 0 ELSE CHOOSE j \in bad : \A m \in bad : j <= m

\* the output lines for data rows 1..n of a file
RowLines(file, n) == [k \in 1..n |-> RowLine(Outcome(file, k).val)]

\* the output lines for all rows of files 1..j
RECURSIVE WholeFiles(_)
WholeFiles(j) ==
    IF j = 0 THEN <<>>
    ELSE WholeFiles(j - 1) \o RowLines(files[j], Len(DataRows(files[j])))

ExpectedHeader ==
    <<Chars["timestamp"], Chars["type"], Chars["amount"], Chars["from"], Chars["to"]>>

\* the events of the history that belong to file j, and their data rows
EventsOf(j) == SelectSeq(trace, LAMBDA e : e[2] = j)

RowsOf(kind, j) ==
    LET es == SelectSeq(trace, LAMBDA e : e[1] = kind /\ e[2] = j)
    IN [i \in 1..Len(es) |-> es[i][3]]

IsRaise(e) == e[1] \notin {"open", "yield", "write", "close"}

Opened(j) == \E i \in 1..Len(trace) : trace[i] = <<"open", j, 0>>

\* C1: fail-fast in pipe.  Once main is over, for every file that was piped
\* and whose first invalid row is row k: pipe raised at row k, and the
\* writes made for that file are exactly those of rows 1..k-1, in order; a
\* file without invalid row was piped to its end.
C1_FailFast ==
    pc = "done" =>
        \A j \in 1..Len(files) :
            Opened(j) =>
                LET k == FirstBad(files[j])
                    last == EventsOf(j)[Len(EventsOf(j))]
                IN IF k = 0 THEN last = <<"close", j, 0>>
                   ELSE /\ IsRaise(last) /\ last[3] = k
                        /\ last[1] = Outcome(files[j], k).exc
                        /\ RowsOf("write", j) = [r \in 1..(k - 1) |-> r]

\* C1 witness: pipe raised at a row k >= 2 that is followed by a valid row
C1_Witness ==
    /\ pc = "done"
    /\ \E i \in 1..Len(trace) :
          /\ IsRaise(trace[i]) /\ trace[i][3] >= 2
          /\ Len(DataRows(files[trace[i][2]])) > trace[i][3]
          /\ Outcome(files[trace[i][2]], trace[i][3] + 1).exc = ""
          /\ RowsOf("write", trace[i][2]) # <<>>

\* C2: once the writer exists, the output holds the header line exactly
\* once, as its first line, whatever was written since.
C2_SingleHeader ==
    pc # "start" =>
        /\ Len(output) >= 1
        /\ output[1] = ExpectedHeader
        /\ \A i \in 2..Len(output) : output[i] # ExpectedHeader

\* C2 witness: rows of two input files went through the same writer
C2_Witness ==
    /\ RowsOf("write", 1) # <<>>
    /\ RowsOf("write", 2) # <<>>
    /\ Len(output) >= 3

\* C3: when every row of every file is valid, main returns None and the
\* output is the header followed by the transformed rows, files in the
\* order given and rows in file order, each exactly once.
C3_OrderAndCount ==
    (pc = "done" /\ FirstBadFile = 0) =>
        /\ result = "None"
        /\ output = <<ExpectedHeader>> \o WholeFiles(Len(files))

\* C3 witness: two files with rows, both written out
C3_Witness ==
    /\ pc = "done" /\ result = "None"
    /\ Len(files) >= 2
    /\ Len(DataRows(files[1])) >= 2
    /\ Len(DataRows(files[2])) >= 1
    /\ Len(output) >= 4

\* C4: a ValidationError is the last thing that happens in a run (no
\* further row is read, no further file opened); main then has printed
\* exactly one message and returned 1; never more than one message.
C4_AbortOnFirstFailure ==
    /\ Len(stderr) <= 1
    /\ \A i \in 1..Len(trace) :
          trace[i][1] = "ValidationError" =>
              /\ i = Len(trace)
              /\ pc = "done" /\ result = "1"
              /\ Len(stderr) = 1
              /\ \A j \in (trace[i][2] + 1)..Len(files) : ~Opened(j)

\* C4 witness: a row of the first file failed validation while another row
\* and another file were still to come
C4_Witness ==
    /\ Len(trace) > 0
    /\ trace[Len(trace)][1] = "ValidationError"
    /\ trace[Len(trace)][2] = 1
    /\ Len(files) >= 2
    /\ Len(DataRows(files[1])) > trace[Len(trace)][3]

\* C5: when some row is invalid, the final output is the header, the rows
\* of the files before the first failing file, and the rows before the
\* first invalid row of that file: nothing written is lost in the abort.
C5_NoRollback ==
    (pc = "done" /\ FirstBadFile # 0) =>
        LET j == FirstBadFile
        IN output = <<ExpectedHeader>> \o WholeFiles(j - 1)
                        \o RowLines(files[j], FirstBad(files[j]) - 1)

\* C5 witness: the abort came in the second file after rows of both files
\* had been written
C5_Witness ==
    /\ pc = "done" /\ result # "None"
    /\ fileIdx = 2
    /\ RowsOf("write", 1) # <<>>
    /\ RowsOf("write", 2) # <<>>

FullyPopulated(rec) ==
    /\ DOMAIN rec = {"timestamp", "type", "amount", "from_", "to"}
    /\ rec.timestamp.year \in 1..9999
    /\ rec.timestamp.month \in 1..12
    /\ rec.timestamp.day \in 1..31
    /\ rec.type \in {REMOVE, ADD}
    /\ Len(rec.amount.m) = MantBits
    /\ rec.from_ \in Int
    /\ rec.to \in Int

SourceOf(bank) ==
    IF bank = BANK_A THEN "bank a" ELSE IF bank = BANK_B THEN "bank b" ELSE "bank c"

\* C6: whatever row the reader hands to transform, transform returns a
\* fully populated record or raises ValidationError naming its bank;
\* nothing else leaves transform, pipe or main.
C6_OnlyValidationError ==
    /\ \A i \in 1..Len(inflight) : FullyPopulated(inflight[i])
    /\ \A i \in 1..Len(trace) :
          /\ trace[i][1] \in {"open", "yield", "write", "close", "ValidationError"}
          /\ trace[i][1] = "ValidationError" =>
                /\ stderr # <<>>
                /\ stderr[1][2] = SourceOf(files[trace[i][2]].bank)
    /\ result \in {"", "None", "1"}

\* C7: the three transformers return equal records for one transaction
\* written in the three formats.
C7_CrossSourceEquivalence ==
    Len(inflight) = 3 => (inflight[1] = inflight[2] /\ inflight[2] = inflight[3])

\* C8: the dictionary written for a record has exactly the header's names
\* as keys, from_ appears only as from, every value is the record's field,
\* and every line written has one cell per header column.
C8_FieldMapping ==
    /\ get_fields = <<"timestamp", "type", "amount", "from", "to">>
    /\ \A i \in 1..Len(inflight) :
          LET rec == inflight[i]
              d == as_dict(rec)
          IN /\ DOMAIN d = {get_fields[n] : n \in 1..Len(get_fields)}
             /\ "from_" \notin DOMAIN d
             /\ d["from"] = rec.from_
             /\ d["timestamp"] = rec.timestamp
             /\ d["type"] = rec.type
             /\ d["amount"] = rec.amount
             /\ d["to"] = rec.to
    /\ \A i \in 1..Len(output) : Len(output[i]) = Len(ExpectedHeader)

\* C8 witness: a record is about to be written after another one was
C8_Witness == pc = "write" /\ Len(inflight) = 1 /\ Len(output) >= 2

\* C9: never more than one record is yielded and not yet written, and the
\* record of row r of a file is written before row r + 1 is read.
C9_OneRowInFlight ==
    /\ Len(inflight) <= 1
    /\ \A i \in 1..Len(trace) :
          (trace[i][1] \notin {"open", "write", "close"} /\ trace[i][3] >= 2) =>
              \E w \in 1..(i - 1) : trace[w] = <<"write", trace[i][2], trace[i][3] - 1>>

\* C9 witness: the second row of a file has been read
C9_Witness == pc = "write" /\ Len(trace) > 0 /\ trace[Len(trace)][1] = "yield"
                 /\ trace[Len(trace)][3] = 2

\* C10: a file without data rows is opened and closed and nothing else:
\* no row written, no error; and when main is over the file after it has
\* been opened as well.
C10_NoDataRows ==
    \A j \in 1..Len(files) :
        DataRows(files[j]) = <<>> =>
            /\ EventsOf(j) \in {<<>>, <<<<"open", j, 0>>>>,
                                <<<<"open", j, 0>>, <<"close", j, 0>>>>}
            /\ (pc = "done" /\ Opened(j) /\ j < Len(files)) => Opened(j + 1)

\* C10 witness: a file that is only a header lacking a required column was
\* passed over and the next file opened
C10_Witness ==
    /\ Len(files) >= 2
    /\ Len(files[1].lines) = 1
    /\ files[1].lines[1] # HeaderOf(files[1].bank)
    /\ Opened(2)

====
